---------------------------- MODULE Spec2Model ----------------------------
(***************************************************************************)
(* Model of src/analyzer.py: the one-shot dividend screener.               *)
(*                                                                         *)
(* Floating-point quantities are fixed-point integers wrapped in a tagged  *)
(* record, so that NaN, +inf, -inf and None are values of their own:       *)
(*   slope              1e-5 price units per day                           *)
(*   r_value            1e-2           r_squared        1e-4               *)
(*   dividendYield      1e-4 (fraction of price)                           *)
(*   money amounts      1e-4 currency units (dividendRate, dividends)      *)
(*   prices             cents                                              *)
(*   timestamps         seconds since the epoch                            *)
(* Strings that the code edits or formats (symbols, dates) are sequences   *)
(* of one-character strings.                                               *)
(***************************************************************************)
EXTENDS Integers, Sequences, FiniteSets, TLC

VARIABLES
    pc,         \* main's position
    tickers,    \* main: tickers
    futures,    \* main: future_to_ticker, in submission order
    yielded,    \* futures that as_completed has already handed to the loop
    completed,  \* main: completed
    results,    \* main: results
    artifact,   \* the documents written to stocks_data.json, oldest first
    arg,        \* analyze_ticker under test: <<ticker, provider response>>
    ret         \* analyze_ticker under test: <<>> before the call, <<value>> after

vars == <<pc, tickers, futures, yielded, completed, results, artifact, arg, ret>>

-----------------------------------------------------------------------------
(* Bounds of the model *)

\* longest symbol list a universe source returns
MaxListing == 2

-----------------------------------------------------------------------------
(* Configuration, analyzer.py lines 11-14 *)

\* MIN_R_SQUARED = 0.5, in 1e-4
MIN_R_SQUARED == 5000
\* MIN_SLOPE = 0.0005, in 1e-5
MIN_SLOPE == 50
\* len(hist) < 200
MIN_HISTORY == 200
\* abs(last_div_amount * 4 - dividend_rate_annual) < 0.1, in 1e-4
RATE_TOLERANCE == 1000
\* min(dividend_yield or 0, 0.10), in 1e-4
YIELD_CAP == 1000

-----------------------------------------------------------------------------
(* Python and numpy values *)

Num(n)  == [k |-> "num", v |-> n]
NaN     == [k |-> "nan", v |-> 0]
PosInf  == [k |-> "inf", v |-> 0]
NegInf  == [k |-> "ninf", v |-> 0]
None    == [k |-> "none", v |-> 0]
\* a key the provider's info dict does not hold
Absent  == [k |-> "absent", v |-> 0]
\* a value datetime.fromtimestamp rejects (out of range, or not a number)
BadTs   == [k |-> "bad", v |-> 0]

IsNum(x)    == x.k = "num"
IsFloat(x)  == x.k \in {"num", "nan", "inf", "ninf"}

\* x < y and x <= y on floats: every comparison with NaN is False
FloatLT(x, y) ==
    CASE x.k = "nan" \/ y.k = "nan" -> FALSE
      [] x.k = "num" /\ y.k = "num" -> x.v < y.v
      [] x.k = "ninf" -> y.k # "ninf"
      [] x.k = "inf" -> FALSE
      [] OTHER -> y.k = "inf"

FloatLE(x, y) ==
    CASE x.k = "nan" \/ y.k = "nan" -> FALSE
      [] OTHER -> FloatLT(x, y) \/ x = y

\* bool(x): None and 0 are falsy, every other number (NaN too) is truthy
Truthy(x) ==
    CASE x.k = "none" -> FALSE
      [] x.k = "num" -> x.v # 0
      [] OTHER -> TRUE

\* dict.get(key, default)
InfoGet(x, default) == IF x.k = "absent" THEN default ELSE x

Abs(n) == IF n < 0 THEN -n ELSE n

\* round(): n / q to the nearest integer. An exact decimal tie falls to either
\* neighbour, as the binary value of the operand lies just above or just below
\* it; up says which.
RoundDiv(n, q, up) ==
    LET f == n \div q
        rem == n % q
    IN  IF 2 * rem < q THEN f
        ELSE IF 2 * rem > q THEN f + 1
        ELSE IF up THEN f + 1 ELSE f

-----------------------------------------------------------------------------
(* datetime.datetime.fromtimestamp(ts).strftime('%Y-%m-%d') *)

DigitChars == <<"0", "1", "2", "3", "4", "5", "6", "7", "8", "9">>
Digit(n) == DigitChars[n + 1]

Pad2(n) == <<Digit(n \div 10), Digit(n % 10)>>
Pad4(n) == <<Digit(n \div 1000), Digit((n \div 100) % 10),
             Digit((n \div 10) % 10), Digit(n % 10)>>

\* the proleptic Gregorian date of a day number counted from 1970-01-01
CivilFromDays(days) ==
    LET z   == days + 719468
        era == z \div 146097
        doe == z - era * 146097
        yoe == (doe - doe \div 1460 + doe \div 36524 - doe \div 146096) \div 365
        doy == doe - (365 * yoe + yoe \div 4 - yoe \div 100)
        mp  == (5 * doy + 2) \div 153
        d   == doy - (153 * mp + 2) \div 5 + 1
        m   == IF mp < 10 THEN mp + 3 ELSE mp - 9
        y   == yoe + era * 400 + (IF m <= 2 THEN 1 ELSE 0)
    IN  [year |-> y, month |-> m, day |-> d]

\* fromtimestamp(ts) in the local zone, utcoffset seconds east of UTC,
\* then strftime('%Y-%m-%d')
FormatDate(ts, utcoffset) ==
    LET c == CivilFromDays((ts + utcoffset) \div 86400)
    IN  Pad4(c.year) \o <<"-">> \o Pad2(c.month) \o <<"-">> \o Pad2(c.day)

NA == <<"N", "/", "A">>

-----------------------------------------------------------------------------
(* analyze_ticker, lines 58-140 *)
(*                                                                         *)
(* A provider response p is what yfinance and linregress hand the function *)
(* for one symbol:                                                         *)
(*   fetch       "ok", or "error" when Ticker()/history() raises           *)
(*   histLen     len(hist)                                                 *)
(*   slope, r_value          linregress(x, closes)                         *)
(*   start_price, end_price  closes[0], closes[-1]                         *)
(*   dividendYield, dividendRate, exDividendDate   entries of stock.info   *)
(*   divs        stock.dividends: "error" (raises), "empty", or the last   *)
(*               payment                                                   *)
(*   utcoffset   the local zone of the machine                             *)
(*   tieUp, cmpLow   where binary rounding error puts an exact decimal tie *)
(*               of round() and an exact 0.1 of the tolerance comparison   *)
(* The record's name and sector are strings copied from stock.info and are *)
(* left out.                                                               *)

\* the function's return value: <<>> is None, <<rec>> a record
NoResult == <<>>

\* r_value**2
SquareR(r) == IF IsNum(r) THEN Num(r.v * r.v) ELSE NaN

\* line 73: if slope <= 0 or (r_value**2) < MIN_R_SQUARED: return None
TrendRejected(slope, r_value) ==
    FloatLE(slope, Num(0)) \/ FloatLT(SquareR(r_value), Num(MIN_R_SQUARED))

\* lines 83-91: the last payment of the dividend history, 0 without one
LastDivAmount(divs) == IF divs.k = "num" THEN divs.v ELSE 0

\* line 100: abs((last_div_amount * 4) - dividend_rate_annual) < 0.1
WithinTolerance(last, rate, cmpLow) ==
    LET d == Abs(last * 4 - rate)
    IN  d < RATE_TOLERANCE \/ (d = RATE_TOLERANCE /\ cmpLow)

\* lines 96-103, a mutation: the tolerance test is dropped and a positive
\* rate always wins
EstPaymentAlwaysQuarter(rate, last, tieUp, cmpLow) ==
    IF Truthy(rate) /\ FloatLT(Num(0), rate)
    THEN RoundDiv(rate.v, 400, tieUp) * 100
    ELSE last

\* lines 96-103: est_payment_amt
EstPayment(rate, last, tieUp, cmpLow) ==
    IF Truthy(rate) /\ FloatLT(Num(0), rate)
    THEN IF WithinTolerance(last, rate.v, cmpLow)
         THEN last
         ELSE RoundDiv(rate.v, 400, tieUp) * 100
    ELSE last

\* line 106: if (not dividend_yield and last_div_amount == 0): return None
NoDividends(dividend_yield, last) == ~Truthy(dividend_yield) /\ last = 0

\* lines 110-113: ex_div_str, or "raise" when fromtimestamp raises
ExDivStr(ts, utcoffset) ==
    IF ~Truthy(ts) THEN NA
    ELSE IF ts.k = "num" THEN FormatDate(ts.v, utcoffset)
    ELSE <<"raise">>

\* lines 116-118 and 126: round(((end - start) / start) * 100, 2), in 1e-2;
\* numpy divides by zero to an infinity or NaN
GrowthPct(start_price, end_price, tieUp) ==
    IF ~IsNum(start_price) \/ ~IsNum(end_price) THEN NaN
    ELSE IF start_price.v = 0
         THEN IF end_price.v > 0 THEN PosInf
              ELSE IF end_price.v < 0 THEN NegInf ELSE NaN
    ELSE Num(RoundDiv((end_price.v - start_price.v) * 10000, start_price.v, tieUp))

\* dividend_yield or 0
YieldOrZero(dividend_yield) ==
    IF Truthy(dividend_yield) THEN dividend_yield ELSE Num(0)

\* line 135: round((r_value**2 * 70) + (min(dividend_yield or 0, 0.10) * 300), 1),
\* in tenths of a point
Score(r_value, dividend_yield, tieUp) ==
    LET y == YieldOrZero(dividend_yield)
        capped == IF FloatLT(Num(YIELD_CAP), y) THEN Num(YIELD_CAP) ELSE y
    IN  IF ~IsNum(r_value) \/ ~IsNum(capped) THEN NaN
        ELSE Num(RoundDiv(r_value.v * r_value.v * 70 + capped.v * 300, 1000, tieUp))

analyze_ticker(ticker, p) ==
    IF p.fetch = "error" THEN NoResult
    ELSE IF p.histLen = 0 \/ p.histLen < MIN_HISTORY THEN NoResult
    ELSE IF TrendRejected(p.slope, p.r_value) THEN NoResult
    ELSE
      LET dividend_yield == InfoGet(p.dividendYield, Num(0))
          ex_div_timestamp == InfoGet(p.exDividendDate, None)
          dividend_rate_annual == InfoGet(p.dividendRate, Num(0))
          last_div_amount == LastDivAmount(p.divs)
          est_payment_amt == EstPayment(dividend_rate_annual, last_div_amount,
                                        p.tieUp, p.cmpLow)
          ex_div_str == ExDivStr(ex_div_timestamp, p.utcoffset)
      IN  IF NoDividends(dividend_yield, last_div_amount) THEN NoResult
          ELSE IF ex_div_str = <<"raise">> THEN NoResult
          ELSE <<[symbol |-> ticker,
                  price |-> p.end_price,
                  slope |-> IF IsNum(p.slope)
                            THEN Num(RoundDiv(p.slope.v, 10, p.tieUp))
                            ELSE p.slope,
                  r_squared |-> SquareR(p.r_value),
                  growth_5y_pct |-> GrowthPct(p.start_price, p.end_price, p.tieUp),
                  dividend_yield_pct |-> YieldOrZero(dividend_yield),
                  ex_div_date |-> ex_div_str,
                  est_next_payment |-> RoundDiv(est_payment_amt, 10, p.tieUp),
                  annual_dividend |-> dividend_rate_annual,
                  score |-> Score(p.r_value, dividend_yield, p.tieUp)]>>

-----------------------------------------------------------------------------
(* Provider responses *)

\* 260 closes rising linearly from 100 to 150, yield 2.5 %, four payments of
\* 1.01 against an annual rate of 4.00
BaseResponse ==
    [fetch |-> "ok", histLen |-> 260,
     slope |-> Num(19231), r_value |-> Num(100),
     start_price |-> Num(10000), end_price |-> Num(15000),
     dividendYield |-> Num(250), dividendRate |-> Num(40000),
     exDividendDate |-> Num(1700000000), divs |-> Num(10100),
     utcoffset |-> 0, tieUp |-> FALSE, cmpLow |-> FALSE]

HistLens == {0, 199, 200, 260}

\* <<slope, r_value>> of one fit: the two share their sign, and are NaN together
Trends ==
    {<<NaN, NaN>>, <<Num(-100), Num(-80)>>, <<Num(0), Num(0)>>,
     <<Num(3), Num(90)>>, <<Num(30), Num(90)>>, <<Num(50), Num(90)>>,
     <<Num(51), Num(71)>>, <<Num(200), Num(70)>>, <<Num(19231), Num(100)>>}

Yields == {Absent, None, Num(0), Num(250), Num(1000), Num(1500), Num(-5000)}

Rates ==
    {Absent, None, Num(0), Num(200), Num(8300), Num(40000), Num(41000),
     Num(50000), Num(-100)}

Dividends ==
    {[k |-> "error", v |-> 0], [k |-> "empty", v |-> 0],
     Num(625), Num(10000), Num(10100)}

ExDates ==
    {Absent, None, Num(0), BadTs, Num(3600), Num(951782400), Num(1700000000)}

UtcOffsets == {-18000, 0, 3600}

\* <<closes[0], closes[-1]>>
Prices ==
    {<<Num(10000), Num(15000)>>, <<Num(3), Num(4)>>, <<Num(0), Num(15000)>>,
     <<Num(0), Num(0)>>, <<NaN, NaN>>}

\* the history, the fit and the yield vary
TrendResponses ==
    {[BaseResponse EXCEPT !.histLen = n, !.slope = t[1], !.r_value = t[2],
                          !.dividendYield = y, !.divs = d, !.tieUp = u] :
        n \in HistLens, t \in Trends, y \in Yields,
        d \in {[k |-> "empty", v |-> 0], Num(10100)}, u \in BOOLEAN}

\* the dividend data vary
DividendResponses ==
    {[BaseResponse EXCEPT !.dividendYield = y, !.dividendRate = r, !.divs = d,
                          !.tieUp = u, !.cmpLow = c] :
        y \in Yields, r \in Rates, d \in Dividends, u \in BOOLEAN, c \in BOOLEAN}

\* the ex-dividend timestamp and the local zone vary
DateResponses ==
    {[BaseResponse EXCEPT !.exDividendDate = ts, !.utcoffset = o] :
        ts \in ExDates, o \in UtcOffsets}

\* the first and last close vary
PriceResponses ==
    {[BaseResponse EXCEPT !.start_price = c[1], !.end_price = c[2], !.tieUp = u] :
        c \in Prices, u \in BOOLEAN}

Responses ==
    {[BaseResponse EXCEPT !.fetch = "error"]}
        \cup TrendResponses \cup DividendResponses \cup DateResponses
        \cup PriceResponses

-----------------------------------------------------------------------------
(* analyze_ticker on its own: one call on any response *)

InitAnalyze ==
    /\ pc = "call"
    /\ arg \in {<<t, p>> : t \in {<<"A">>}, p \in Responses}
    /\ ret = <<>>
    /\ tickers = <<>>
    /\ futures = <<>>
    /\ yielded = {}
    /\ completed = 0
    /\ results = <<>>
    /\ artifact = <<>>

Analyze ==
    /\ pc = "call"
    /\ ret' = <<analyze_ticker(arg[1], arg[2])>>
    /\ pc' = "returned"
    /\ UNCHANGED <<tickers, futures, yielded, completed, results, artifact, arg>>

NextAnalyze == Analyze

SpecAnalyze == InitAnalyze /\ [][NextAnalyze]_vars

\* the call has returned a record
Returned == pc = "returned" /\ ret # <<>> /\ ret[1] # NoResult
\* the record returned, and the response it was computed from
Rec == ret[1][1]
Resp == arg[2]

-----------------------------------------------------------------------------
(* list.sort(key=lambda x: x['score'], reverse=True), line 173 *)
(*                                                                         *)
(* CPython reverses the list, sorts it stably with < on the keys and       *)
(* reverses it again. A list shorter than 64 is sorted by count_run        *)
(* followed by binarysort. With NaN keys < is no order and the outcome is  *)
(* whatever these steps leave.                                             *)

ReverseSeq(s) == [i \in 1..Len(s) |-> s[Len(s) + 1 - i]]

KeyLT(a, b) == FloatLT(a.score, b.score)

\* count_run: the last index of the run that starts at s[1]
RECURSIVE RunEnd(_, _, _)
RunEnd(s, i, descending) ==
    IF i > Len(s) THEN i - 1
    ELSE IF KeyLT(s[i], s[i - 1]) = descending THEN RunEnd(s, i + 1, descending)
    ELSE i - 1

\* binarysort's search: where pivot goes in the sorted s[l..r-1]
RECURSIVE InsertionPoint(_, _, _, _)
InsertionPoint(s, pivot, l, r) ==
    IF l >= r THEN l
    ELSE LET p == l + (r - l) \div 2
         IN  IF KeyLT(pivot, s[p]) THEN InsertionPoint(s, pivot, l, p)
             ELSE InsertionPoint(s, pivot, p + 1, r)

InsertAt(s, pos, x) ==
    SubSeq(s, 1, pos - 1) \o <<x>> \o SubSeq(s, pos, Len(s))

\* binarysort: s[1..start] is sorted, the elements after it are inserted in turn
RECURSIVE BinarySort(_, _)
BinarySort(s, start) ==
    IF start >= Len(s) THEN s
    ELSE LET pivot == s[start + 1]
             pos == InsertionPoint(s, pivot, 1, start + 1)
             head == InsertAt(SubSeq(s, 1, start), pos, pivot)
         IN  BinarySort(head \o SubSeq(s, start + 2, Len(s)), start + 1)

\* the ascending sort of listsort
TimSortShort(s) ==
    IF Len(s) < 2 THEN s
    ELSE LET descending == KeyLT(s[2], s[1])
             n == RunEnd(s, 3, descending)
             run == IF descending THEN ReverseSeq(SubSeq(s, 1, n))
                    ELSE SubSeq(s, 1, n)
         IN  BinarySort(run \o SubSeq(s, n + 1, Len(s)), n)

\* results.sort(key=score, reverse=True)
SortByScore(s) == ReverseSeq(TimSortShort(ReverseSeq(s)))

-----------------------------------------------------------------------------
(* Universe sources, lines 16-56 *)

Str(chars) == [k |-> "str", s |-> chars]
\* a cell pandas did not read as a string (an empty cell, or the text "NA")
NotStr == [k |-> "float", s |-> <<>>]

RawSymbols == {Str(<<"A">>), Str(<<"B", ".", "B">>), Str(<<"B", "-", "B">>), NotStr}

\* a row of nasdaqtraded.txt
ListingRows == {[Symbol |-> x, TestIssue |-> f] : x \in RawSymbols, f \in {"N", "Y"}}

RECURSIVE SeqsUpTo(_, _)
SeqsUpTo(S, n) ==
    IF n = 0 THEN {<<>>}
    ELSE LET shorter == SeqsUpTo(S, n - 1)
         IN  shorter \cup {Append(q, x) : q \in {r \in shorter : Len(r) = n - 1}, x \in S}

\* what a download yields: the table, or an exception (network, parse, column)
ListingOutcomes ==
    {[ok |-> FALSE, rows |-> <<>>]}
        \cup {[ok |-> TRUE, rows |-> q] : q \in SeqsUpTo(ListingRows, MaxListing)}

WikiOutcomes ==
    {[ok |-> FALSE, rows |-> <<>>]}
        \cup {[ok |-> TRUE, rows |-> q] : q \in SeqsUpTo(RawSymbols, MaxListing)}

\* t.replace('.', '-')
ReplaceDot(t) == [i \in 1..Len(t) |-> IF t[i] = "." THEN "-" ELSE t[i]]

\* line 56
SeedTickers == <<<<"A", "A", "P", "L">>, <<"M", "S", "F", "T">>, <<"G", "O", "O", "G">>>>

\* lines 45-56: a symbol that is no string makes t.replace raise, and the bare
\* except returns the seed list
get_sp500_tickers_fallback(wiki) ==
    IF ~wiki.ok \/ \E i \in 1..Len(wiki.rows) : wiki.rows[i].k # "str"
    THEN SeedTickers
    ELSE [i \in 1..Len(wiki.rows) |-> ReplaceDot(wiki.rows[i].s)]

\* lines 26-37: the rows with Test Issue 'N', non-strings skipped, dots rewritten
RECURSIVE CleanListing(_)
CleanListing(rows) ==
    IF rows = <<>> THEN <<>>
    ELSE LET row == Head(rows)
         IN  IF row.TestIssue = "N" /\ row.Symbol.k = "str"
             THEN <<ReplaceDot(row.Symbol.s)>> \o CleanListing(Tail(rows))
             ELSE CleanListing(Tail(rows))

\* lines 16-43, a mutation: the except clause is missing and a failed
\* download escapes
get_all_us_tickers_no_except(listing, wiki) ==
    IF listing.ok
    THEN [raised |-> FALSE, value |-> CleanListing(listing.rows)]
    ELSE [raised |-> TRUE, value |-> <<>>]

\* lines 16-43
get_all_us_tickers(listing, wiki) ==
    IF listing.ok
    THEN [raised |-> FALSE, value |-> CleanListing(listing.rows)]
    ELSE [raised |-> FALSE, value |-> get_sp500_tickers_fallback(wiki)]

-----------------------------------------------------------------------------
(* clean_nan, lines 176-183 *)

\* a float that is NaN becomes None; every other value is kept
CleanValue(x) == IF x.k = "nan" THEN None ELSE x

CleanRecord(r) ==
    [r EXCEPT !.price = CleanValue(@), !.slope = CleanValue(@),
              !.r_squared = CleanValue(@), !.growth_5y_pct = CleanValue(@),
              !.dividend_yield_pct = CleanValue(@),
              !.annual_dividend = CleanValue(@), !.score = CleanValue(@)]

clean_nan(list) == [i \in 1..Len(list) |-> CleanRecord(list[i])]

-----------------------------------------------------------------------------
(* main, lines 142-201 *)

\* the responses the provider gives in a run of main
Fixtures ==
    {BaseResponse,
     [BaseResponse EXCEPT !.r_value = Num(90)],
     [BaseResponse EXCEPT !.start_price = Num(0)],
     [BaseResponse EXCEPT !.slope = NaN, !.r_value = NaN],
     [BaseResponse EXCEPT !.histLen = 199],
     [BaseResponse EXCEPT !.fetch = "error"]}

Init ==
    /\ pc = "start"
    /\ tickers = <<>>
    /\ futures = <<>>
    /\ yielded = {}
    /\ completed = 0
    /\ results = <<>>
    /\ artifact = <<>>
    /\ arg = <<>>
    /\ ret = <<>>

\* line 144: tickers = get_all_us_tickers()
Resolve ==
    /\ pc = "start"
    /\ \E listing \in ListingOutcomes, wiki \in WikiOutcomes :
          LET got == get_all_us_tickers(listing, wiki)
          IN  /\ tickers' = got.value
              /\ pc' = IF got.raised THEN "crashed" ELSE "check"
    /\ UNCHANGED <<futures, yielded, completed, results, artifact, arg, ret>>

\* lines 146-150: an empty universe is replaced by the fallback's
CheckEmpty ==
    /\ pc = "check"
    /\ \/ /\ tickers = <<>>
          /\ \E wiki \in WikiOutcomes : tickers' = get_sp500_tickers_fallback(wiki)
       \/ /\ tickers # <<>>
          /\ UNCHANGED tickers
    /\ pc' = "submit"
    /\ UNCHANGED <<futures, yielded, completed, results, artifact, arg, ret>>

\* lines 154-160: one future per element of tickers
Submit ==
    /\ pc = "submit"
    /\ futures' = [i \in 1..Len(tickers) |->
                      [ticker |-> tickers[i], state |-> "pending",
                       exception |-> FALSE, result |-> NoResult]]
    /\ results' = <<>>
    /\ completed' = 0
    /\ pc' = "collect"
    /\ UNCHANGED <<tickers, yielded, artifact, arg, ret>>

\* a worker runs analyze_ticker for one future. analyze_ticker catches every
\* Exception itself, so the future holds a value and never an exception.
RunTask(i) ==
    /\ pc = "collect"
    /\ futures[i].state = "pending"
    /\ \E p \in Fixtures :
          futures' = [futures EXCEPT ![i].state = "done",
                                     ![i].result = analyze_ticker(futures[i].ticker, p)]
    /\ UNCHANGED <<pc, tickers, yielded, completed, results, artifact, arg, ret>>

\* lines 161-170: as_completed yields a finished future and the loop body runs
Collect(i) ==
    /\ pc = "collect"
    /\ futures[i].state = "done"
    /\ i \notin yielded
    /\ yielded' = yielded \cup {i}
    /\ completed' = completed + 1
    /\ results' = IF futures[i].exception THEN results
                  ELSE results \o futures[i].result
    /\ UNCHANGED <<pc, tickers, futures, artifact, arg, ret>>

\* lines 172-198: after the loop and the pool's shutdown, sort, clean and write
Finish ==
    /\ pc = "collect"
    /\ yielded = DOMAIN futures
    /\ results' = SortByScore(results)
    /\ artifact' = Append(artifact,
                          [total_analyzed |-> Len(tickers),
                           data |-> clean_nan(results')])
    /\ pc' = "done"
    /\ UNCHANGED <<tickers, futures, yielded, completed, arg, ret>>

Next ==
    \/ Resolve
    \/ CheckEmpty
    \/ Submit
    \/ \E i \in DOMAIN futures : RunTask(i)
    \/ \E i \in DOMAIN futures : Collect(i)
    \/ Finish

Spec == Init /\ [][Next]_vars

\* the main thread keeps running, and every submitted task is run to its end
FairSpec ==
    /\ Spec
    /\ WF_vars(Resolve \/ CheckEmpty \/ Submit \/ Finish)
    /\ WF_vars(\E i \in DOMAIN futures : RunTask(i))
    /\ WF_vars(\E i \in DOMAIN futures : Collect(i))

-----------------------------------------------------------------------------
(* Properties of the written artifact (Spec, FairSpec) *)

Written == pc = "done" /\ Len(artifact) = 1
Data == artifact[1].data

\* C1: in the written artifact no two entries of data have the same symbol,
\* whatever the universe sources returned and whatever the tasks yielded.
C1_UniqueSymbols ==
    Written =>
        \A i, j \in 1..Len(Data) : i # j => Data[i].symbol # Data[j].symbol

\* the records of the futures in submission order
RECURSIVE ResultsInSubmissionOrder(_)
ResultsInSubmissionOrder(fs) ==
    IF fs = <<>> THEN <<>>
    ELSE Head(fs).result \o ResultsInSubmissionOrder(Tail(fs))

\* the universe holds no symbol twice
DistinctTickers ==
    \A i, j \in 1..Len(tickers) : i # j => tickers[i] # tickers[j]

\* every record the tasks returned has a number for its score
AllScoresNumbers == \A i \in 1..Len(results) : IsNum(results[i].score)

\* C2: the written data does not depend on the order in which the tasks
\* complete, the relative order of entries of equal score included.
\* Completion in submission order is one of the interleavings, so
\* independence means every run writes what that one writes: the ranking of
\* the futures' records taken in submission order. Stated for the runs whose
\* universe holds each symbol once, where a task's result is its symbol's
\* result, and whose scores are all numbers, where the ranking does not rest
\* on comparisons with NaN.
C2_CompletionOrderIndependent ==
    (Written /\ DistinctTickers /\ AllScoresNumbers) =>
        Data = clean_nan(SortByScore(ResultsInSubmissionOrder(futures)))

\* C3: the run always completes and writes the artifact exactly once, after
\* every submitted task has been collected, whatever the universe sources and
\* the tasks yield; nothing is written before that and nothing aborts the run.
C3_CompletesAndWritesOnce ==
    /\ <>(pc = "done")
    /\ [](Len(artifact) <= 1)
    /\ [](pc = "done" => Len(artifact) = 1)
    /\ [](Len(artifact) = 1 =>
            /\ yielded = DOMAIN futures
            /\ Len(futures) = Len(tickers)
            /\ \A i \in DOMAIN futures : futures[i].state = "done"
            /\ artifact[1].total_analyzed = Len(tickers))

\* C3's case: both universe sources failed, the seed list was analysed, no
\* task yielded a record, and the artifact was still written
C3_Witness ==
    /\ Written
    /\ tickers = SeedTickers
    /\ \A i \in DOMAIN futures : futures[i].result = NoResult
    /\ Data = <<>>

FloatFields(r) ==
    {r.price, r.slope, r.r_squared, r.growth_5y_pct, r.dividend_yield_pct,
     r.annual_dividend, r.score}

\* C5: after clean_nan no numeric field of an entry of the serialized data is
\* NaN, +infinity or -infinity.
C5_NoNonFiniteField ==
    Written =>
        \A i \in 1..Len(Data) :
            \A x \in FloatFields(Data[i]) : x.k \notin {"nan", "inf", "ninf"}

\* a >= b on two scores of the output: null compares with nothing
ScoreGE(a, b) == IsFloat(a) /\ IsFloat(b) /\ FloatLE(b, a)

Bijections(n) ==
    {f \in [1..n -> 1..n] : \A i, j \in 1..n : i # j => f[i] # f[j]}

\* out is before, cleaned and rearranged, in descending order of score, and
\* entries of equal score keep the order they had in before
IsStableRanking(before, out) ==
    /\ Len(out) = Len(before)
    /\ \A i \in 1..(Len(out) - 1) : ScoreGE(out[i].score, out[i + 1].score)
    /\ \E f \in Bijections(Len(before)) :
          /\ \A i \in 1..Len(out) : out[i] = CleanRecord(before[f[i]])
          /\ \A i, j \in 1..Len(out) :
                (i < j /\ before[f[i]].score = before[f[j]].score) => f[i] < f[j]

\* C7: the written data is the collected results sorted by score in descending
\* order, ties stable: adjacent scores do not increase, the data is a
\* permutation of the collected results, and entries of identical score keep
\* their pre-sort order.
C7_StableDescendingSort ==
    [][Finish => IsStableRanking(results, artifact'[1].data)]_vars

-----------------------------------------------------------------------------
(* Properties of analyze_ticker (SpecAnalyze) *)

\* the fit clears the configured minima: slope > MIN_SLOPE, r^2 >= MIN_R_SQUARED
ClearsMinima(p) ==
    /\ IsNum(p.slope) /\ p.slope.v > MIN_SLOPE
    /\ IsNum(p.r_value) /\ p.r_value.v * p.r_value.v >= MIN_R_SQUARED

\* C4: every record returned has 0 <= score <= 100, for r_squared in [0, 1]
\* and a yield of any sign or magnitude. Stated for the symbols whose fit
\* clears the configured minima.
C4_ScoreInRange ==
    (Returned /\ ClearsMinima(Resp)) =>
        IsNum(Rec.score) /\ 0 <= Rec.score.v /\ Rec.score.v <= 1000

\* C6: every record returned has a regression slope strictly above MIN_SLOPE
\* and an r_squared of at least MIN_R_SQUARED; a slope in (0, MIN_SLOPE] or a
\* NaN fit yields no record.
C6_TrendAboveMinimum ==
    Returned =>
        /\ IsNum(Resp.slope) /\ Resp.slope.v > MIN_SLOPE
        /\ IsNum(Rec.r_squared) /\ Rec.r_squared.v >= MIN_R_SQUARED

\* the rate and the last payment the call worked with
RateOf(p) == InfoGet(p.dividendRate, Num(0))
PositiveRate(p) == IsNum(RateOf(p)) /\ RateOf(p).v > 0
\* |4 * last - rate|, in 1e-4
RateGap(p) == Abs(4 * LastDivAmount(p.divs) - RateOf(p).v)

\* C8 as claimed: the estimate is the last payment when a positive rate lies
\* within the 0.1 tolerance of four times it, exactly one quarter of the rate
\* when it does not, and the last payment when there is no positive rate.
\* est_next_payment is in 1e-3, the inputs in 1e-4.
C8_EstimateExact ==
    Returned =>
        IF PositiveRate(Resp)
        THEN /\ RateGap(Resp) < RATE_TOLERANCE =>
                    Rec.est_next_payment * 10 = LastDivAmount(Resp.divs)
             /\ RateGap(Resp) > RATE_TOLERANCE =>
                    Rec.est_next_payment * 40 = RateOf(Resp).v
        ELSE Rec.est_next_payment * 10 = LastDivAmount(Resp.divs)

\* est is x rounded to 3 decimals
IsRounded3(est, x) == Abs(est * 10 - x) <= 5
\* est is a whole number of cents, the nearest to rate / 4
IsQuarterRounded2(est, rate) == est % 10 = 0 /\ Abs(est * 40 - rate) <= 200

\* C8, amended: the estimate is the last payment rounded to 3 decimals when a
\* positive rate lies strictly within 0.1 of four times it, one quarter of the
\* rate rounded to 2 decimals when the gap exceeds 0.1, one of the two when
\* the gap is exactly 0.1, and the last payment rounded to 3 decimals when
\* there is no positive rate.
C8_EstimateRounded ==
    Returned =>
        LET est == Rec.est_next_payment
            last == LastDivAmount(Resp.divs)
        IN  IF PositiveRate(Resp)
            THEN /\ RateGap(Resp) < RATE_TOLERANCE => IsRounded3(est, last)
                 /\ RateGap(Resp) > RATE_TOLERANCE =>
                        IsQuarterRounded2(est, RateOf(Resp).v)
                 /\ RateGap(Resp) = RATE_TOLERANCE =>
                        IsRounded3(est, last) \/ IsQuarterRounded2(est, RateOf(Resp).v)
            ELSE IsRounded3(est, last)

\* C8's case: rate 5.00 against a last payment of 1.01 gives 1.25
C8_Witness ==
    /\ Returned
    /\ Resp.dividendRate = Num(50000)
    /\ Resp.divs = Num(10100)
    /\ Rec.est_next_payment = 1250

\* the response passes the history, trend and dividend gates
PassesGates(p) ==
    /\ p.fetch = "ok"
    /\ p.histLen >= MIN_HISTORY
    /\ ~TrendRejected(p.slope, p.r_value)
    /\ ~NoDividends(InfoGet(p.dividendYield, Num(0)), LastDivAmount(p.divs))

IsDateString(s) ==
    /\ Len(s) = 10
    /\ s[5] = "-" /\ s[8] = "-"
    /\ \A i \in {1, 2, 3, 4, 6, 7, 9, 10} : \E d \in 1..10 : s[i] = DigitChars[d]

\* C9: a symbol that passes every gate gets a record whose ex_div_date is
\* "N/A" when the timestamp is absent and when its conversion fails, and a
\* YYYY-MM-DD string when the conversion succeeds; a conversion failure does
\* not drop the symbol.
C9_ExDivDateOrNA ==
    (pc = "returned" /\ PassesGates(Resp)) =>
        /\ ret[1] # NoResult
        /\ LET ts == InfoGet(Resp.exDividendDate, None)
           IN  /\ ts.k \in {"none", "bad"} => Rec.ex_div_date = NA
               /\ (ts.k = "num" /\ ts.v # 0) => IsDateString(Rec.ex_div_date)

\* C10: every record returned has a dividend yield > 0 or a last paid amount
\* > 0; a symbol with neither yields no record. Stated for the symbols whose
\* fit clears the configured minima.
C10_DividendPresence ==
    (Returned /\ ClearsMinima(Resp)) =>
        \/ FloatLT(Num(0), InfoGet(Resp.dividendYield, Num(0)))
        \/ LastDivAmount(Resp.divs) > 0

=============================================================================
